---- MODULE Spec2Model ----
(***************************************************************************)
(* Model of the Workspace orchestrator of coc.nvim                         *)
(* (sources_non_forked/coc/src/workspace.ts): construction, the init       *)
(* handshake, the deprecated-method shim, the event facade and the         *)
(* attach / detach / reset / dispose lifecycle.                            *)
(*                                                                         *)
(* JavaScript runs a function to its next `await` without interleaving,    *)
(* so init is three actions: the part up to the snapshot request, the part *)
(* from the reply to the start of the document attach, and the settling of *)
(* that attach.  Every call into a collaborator or the host may throw; the *)
(* step that throws is an input of the action.                             *)
(***************************************************************************)
EXTENDS Integers, Sequences, FiniteSets, TLC

\* ------------------------------------------------------------ bounds
\* Most invocations of forwarding functions in one behaviour.
MaxCalls == 2
\* Most reads of shim accessors in one behaviour.
MaxReads == 1
\* Most emissions on the event streams in one behaviour.
MaxEmit == 3
\* Most sync registries created in one behaviour.
MaxRegs == 2
\* Highest version a document reaches before it is closed.
MaxVersion == 2

\* ------------------------------------------------------------ program constants
APIVERSION == 17

methods ==
  << "showMessage", "runTerminalCommand", "openTerminal", "showQuickpick",
     "menuPick", "openLocalConfig", "showPrompt", "createStatusBarItem",
     "createOutputChannel", "showOutputChannel", "requestInput", "echoLines",
     "getCursorPosition", "moveTo", "getOffset", "getSelectedRange",
     "selectRange" >>

Range(s) == { s[i] : i \in 1..Len(s) }

MethodNames == Range(methods)

\* ------------------------------------------------------------ inputs
\* A path string, as its segments between separators; `abs` when it starts
\* with a separator. The empty string has no segment and is not absolute.
Path(abs, segs) == [set |-> TRUE, abs |-> abs, segs |-> segs]

\* Values of process.env.COC_VIMCONFIG: unset (undefined), or a directory.
Unset == [set |-> FALSE, abs |-> FALSE, segs |-> << >>]
EnvValues == { Unset, Path(TRUE, << "cfg", "nvim" >>) }

\* More values of COC_VIMCONFIG: "/cfg/./nvim", "/cfg/x/../nvim",
\* "/cfg//nvim", "" and "../cfg".
PathInputs ==
  EnvValues \cup
  { Path(TRUE, << "cfg", ".", "nvim" >>),
    Path(TRUE, << "cfg", "x", "..", "nvim" >>),
    Path(TRUE, << "cfg", "", "nvim" >>),
    Path(FALSE, << >>),
    Path(FALSE, << "..", "cfg" >>) }

\* os.homedir()
HomeDir == Path(TRUE, << "home", "user" >>)
CONFIG_FILE_NAME == "coc-settings.json"

\* Host surfaces handed to init.
Windows == { "w1", "w2" }

\* Env snapshots the host can answer coc#util#vim_info with.
Snapshots ==
  { [apiversion |-> 17, workspaceFolders |-> "foldersA", config |-> "configA"],
    [apiversion |-> 17, workspaceFolders |-> "foldersB", config |-> "configB"],
    [apiversion |-> 16, workspaceFolders |-> "foldersA", config |-> "configB"],
    [apiversion |-> 18, workspaceFolders |-> "foldersB", config |-> "configA"] }

NoEnv == [apiversion |-> 0, workspaceFolders |-> "none", config |-> "none"]
NoWindow == "none"
NoPath == [set |-> FALSE, abs |-> FALSE, segs |-> << "none" >>]

VARIABLES
  cfgEnv,           \* process.env.COC_VIMCONFIG
  constructPc,      \* "none","returned","threw" for the last new Workspace()
  constructed,      \* the constructor has returned
  userConfigFile,   \* path handed to Configurations
  lastOp,           \* the operation that made the last step
  hostCalls,        \* requests and notifications the workspace sent to nvim
  facade,           \* facade event field -> the stream it holds
  props,            \* own accessor properties defined on the workspace object
  shimWindow,       \* the window the accessors' closures captured
  env,              \* this._env
  folders,          \* content of WorkspaceFolderController
  config,           \* user configuration held by Configurations
  attached,         \* collaborators currently attached to nvim
  docsEnv,          \* env handed to the last documentsManager.attach
  disposed,         \* collaborators whose dispose() has returned
  initPc,           \* "idle","awaitEnv","awaitDocs","resolved","rejected"
  initTrace,        \* events <<step, "call"|"ret"|"throw">> of the last init
  initError,        \* the step that made the last init reject, or "none"
  diag,             \* echoError calls of the last init: <<got, expected>>
  recov,            \* progress of: attach failure, reset(), init again
  disposePc,        \* "none","returned","threw" for the last dispose()
  disposeTrace,     \* events of the last dispose()
  fns,              \* forwarding functions obtained from accessors
  readCount,        \* method -> reads of its accessor
  invokeCount,      \* method -> invocations of its forwarding functions
  warnCount,        \* method -> deprecation warnings logged
  lastInvoke,       \* the last forwarding invocation: input and what it did
  fsub,             \* a subscriber attached through a facade name
  dsub,             \* a subscriber attached on a subcomponent's event
  emitted,          \* emissions so far (the n-th emission carries payload n)
  docs,             \* document -> its version, 0 when it is not open
  regs,             \* the sync registries, in the order of their creation
  lastClose,        \* the last document close: what each registry did on it
  lastDisp,         \* the last registry disposal: what it did
  lastReset         \* the last reset(): the caches it found

shimVars == << fns, readCount, invokeCount, warnCount, lastInvoke >>
eventVars == << fsub, dsub, emitted >>
syncVars == << docs, regs, lastClose, lastDisp >>
initVars == << props, shimWindow, env, folders, config, initPc, initTrace,
               initError, diag >>
disposeVars == << disposed, disposePc, disposeTrace >>
ctorVars == << cfgEnv, constructPc, constructed, userConfigFile, facade >>
vars == << cfgEnv, constructPc, lastOp, hostCalls,
           constructed, userConfigFile, facade, props, shimWindow, env,
           folders, config, attached, docsEnv, disposed, initPc, initTrace,
           initError, diag, recov, disposePc, disposeTrace, fns, readCount,
           invokeCount, warnCount, lastInvoke, fsub, dsub, emitted, docs, regs,
           lastClose, lastDisp, lastReset >>

\* ------------------------------------------------------------ constructor
\* path.normalize(p): throws a TypeError unless p is a string.
NormalizeThrows(p) == ~p.set

\* The segments of a normalized path: empty and "." segments dropped, ".."
\* resolved against the segment before it, kept at the front of a relative
\* path and dropped at the root.
RECURSIVE NormalizeString(_, _, _)
NormalizeString(segs, allowAboveRoot, acc) ==
  IF segs = << >> THEN acc
  ELSE LET s == Head(segs)
           rest == Tail(segs)
       IN IF s \in { "", "." } THEN NormalizeString(rest, allowAboveRoot, acc)
          ELSE IF s = ".."
            THEN IF acc # << >> /\ acc[Len(acc)] # ".."
                   THEN NormalizeString(rest, allowAboveRoot,
                                        SubSeq(acc, 1, Len(acc) - 1))
                   ELSE IF allowAboveRoot
                     THEN NormalizeString(rest, allowAboveRoot, Append(acc, ".."))
                     ELSE NormalizeString(rest, allowAboveRoot, acc)
            ELSE NormalizeString(rest, allowAboveRoot, Append(acc, s))

\* path.normalize(p) of a string: "." for the empty string and for a
\* relative path that normalizes to nothing.
Normalize(p) ==
  LET n == NormalizeString(p.segs, ~p.abs, << >>) IN
    IF ~p.abs /\ n = << >> THEN Path(FALSE, << "." >>) ELSE Path(p.abs, n)

\* The empty string, the one falsy string.
IsEmptyString(p) == p.set /\ ~p.abs /\ p.segs = << >>

\* path.join(dir, name): the two joined by a separator, normalized.
Join(dir, name) ==
  Normalize(Path(dir.abs, dir.segs \o << name >>))

\* let home = path.normalize(process.env.COC_VIMCONFIG) || path.join(os.homedir(), '.vim')
Home(v) ==
  IF IsEmptyString(Normalize(v)) THEN Join(HomeDir, ".vim") ELSE Normalize(v)

\* path.join(home, CONFIG_FILE_NAME)
UserConfigFile(v) == Join(Home(v), CONFIG_FILE_NAME)

FacadeNames ==
  { "onDidRuntimePathChange", "onDidChangeWorkspaceFolders",
    "onDidChangeConfiguration", "onDidOpenTextDocument",
    "onDidChangeTextDocument", "onDidCloseTextDocument",
    "onDidSaveTextDocument", "onWillSaveTextDocument", "onDidOpenTerminal",
    "onDidCloseTerminal", "onDidCreateFiles", "onDidRenameFiles",
    "onDidDeleteFiles", "onWillCreateFiles", "onWillRenameFiles",
    "onWillDeleteFiles" }

\* A mis-aliased facade: the close event bound to the open stream.
FacadeAliasSlip(name) ==
  CASE name = "onDidRuntimePathChange" -> << "watchers", "onDidRuntimePathChange" >>
    [] name = "onDidChangeWorkspaceFolders" -> << "workspaceFolderControl", "onDidChangeWorkspaceFolders" >>
    [] name = "onDidChangeConfiguration" -> << "configurations", "onDidChange" >>
    [] name = "onDidOpenTextDocument" -> << "documents", "onDidOpenTextDocument" >>
    [] name = "onDidChangeTextDocument" -> << "documents", "onDidChangeDocument" >>
    [] name = "onDidCloseTextDocument" -> << "documents", "onDidOpenTextDocument" >>
    [] name = "onDidSaveTextDocument" -> << "documents", "onDidSaveTextDocument" >>
    [] name = "onWillSaveTextDocument" -> << "documents", "onWillSaveTextDocument" >>
    [] name = "onDidOpenTerminal" -> << "documents", "onDidOpenTerminal" >>
    [] name = "onDidCloseTerminal" -> << "documents", "onDidCloseTerminal" >>
    [] OTHER -> << "files", name >>

\* The open event of the facade bound to the change stream.
FacadeAliasOpenOnChange(name) ==
  CASE name = "onDidRuntimePathChange" -> << "watchers", "onDidRuntimePathChange" >>
    [] name = "onDidChangeWorkspaceFolders" -> << "workspaceFolderControl", "onDidChangeWorkspaceFolders" >>
    [] name = "onDidChangeConfiguration" -> << "configurations", "onDidChange" >>
    [] name = "onDidOpenTextDocument" -> << "documents", "onDidChangeDocument" >>
    [] name = "onDidChangeTextDocument" -> << "documents", "onDidChangeDocument" >>
    [] name = "onDidCloseTextDocument" -> << "documents", "onDidCloseDocument" >>
    [] name \in { "onDidSaveTextDocument", "onWillSaveTextDocument",
                  "onDidOpenTerminal", "onDidCloseTerminal" } -> << "documents", name >>
    [] OTHER -> << "files", name >>

\* The close event of the facade bound to the save stream.
FacadeAliasCloseOnSave(name) ==
  CASE name = "onDidRuntimePathChange" -> << "watchers", "onDidRuntimePathChange" >>
    [] name = "onDidChangeWorkspaceFolders" -> << "workspaceFolderControl", "onDidChangeWorkspaceFolders" >>
    [] name = "onDidChangeConfiguration" -> << "configurations", "onDidChange" >>
    [] name = "onDidOpenTextDocument" -> << "documents", "onDidOpenTextDocument" >>
    [] name = "onDidChangeTextDocument" -> << "documents", "onDidChangeDocument" >>
    [] name = "onDidCloseTextDocument" -> << "documents", "onDidSaveTextDocument" >>
    [] name \in { "onDidSaveTextDocument", "onWillSaveTextDocument",
                  "onDidOpenTerminal", "onDidCloseTerminal" } -> << "documents", name >>
    [] OTHER -> << "files", name >>

\* The stream each facade field is assigned in the constructor: the event
\* object of the subcomponent itself.
FacadeAlias(name) ==
  CASE name = "onDidRuntimePathChange" -> << "watchers", "onDidRuntimePathChange" >>
    [] name = "onDidChangeWorkspaceFolders" -> << "workspaceFolderControl", "onDidChangeWorkspaceFolders" >>
    [] name = "onDidChangeConfiguration" -> << "configurations", "onDidChange" >>
    [] name = "onDidOpenTextDocument" -> << "documents", "onDidOpenTextDocument" >>
    [] name = "onDidChangeTextDocument" -> << "documents", "onDidChangeDocument" >>
    [] name = "onDidCloseTextDocument" -> << "documents", "onDidCloseDocument" >>
    [] name = "onDidSaveTextDocument" -> << "documents", "onDidSaveTextDocument" >>
    [] name = "onWillSaveTextDocument" -> << "documents", "onWillSaveTextDocument" >>
    [] name = "onDidOpenTerminal" -> << "documents", "onDidOpenTerminal" >>
    [] name = "onDidCloseTerminal" -> << "documents", "onDidCloseTerminal" >>
    [] name = "onDidCreateFiles" -> << "files", "onDidCreateFiles" >>
    [] name = "onDidRenameFiles" -> << "files", "onDidRenameFiles" >>
    [] name = "onDidDeleteFiles" -> << "files", "onDidDeleteFiles" >>
    [] name = "onWillCreateFiles" -> << "files", "onWillCreateFiles" >>
    [] name = "onWillRenameFiles" -> << "files", "onWillRenameFiles" >>
    [] name = "onWillDeleteFiles" -> << "files", "onWillDeleteFiles" >>

NoStream == << >>

\* The documents of the host, each with its language id.
Docs == { "A", "B" }
Language(d) == IF d = "A" THEN "typescript" ELSE "plaintext"
NoClose == [doc |-> "none", before |-> << >>, events |-> << >>]
NoReset == [done |-> FALSE, folders |-> "empty", docs |-> {}]
NoDisp == [reg |-> 0, again |-> FALSE, before |-> << >>, events |-> << >>]
NoSub == [key |-> "none", stream |-> NoStream, start |-> 0, log |-> << >>]
NoInvoke == [method |-> "none", args |-> << >>, outcome |-> << >>,
             stack |-> << >>, events |-> << >>, result |-> << >>]

\* The state before new Workspace(), but for the process environment.
InitRest ==
  /\ constructPc = "none"
  /\ lastOp = "none"
  /\ hostCalls = << >>
  /\ constructed = FALSE
  /\ userConfigFile = NoPath
  /\ facade = [n \in FacadeNames |-> NoStream]
  /\ props = {}
  /\ shimWindow = NoWindow
  /\ env = NoEnv
  /\ folders = "empty"
  /\ config = "empty"
  /\ attached = {}
  /\ docsEnv = NoEnv
  /\ disposed = {}
  /\ initPc = "idle"
  /\ initTrace = << >>
  /\ initError = "none"
  /\ diag = << >>
  /\ recov = "none"
  /\ disposePc = "none"
  /\ disposeTrace = << >>
  /\ fns = {}
  /\ readCount = [m \in MethodNames |-> 0]
  /\ invokeCount = [m \in MethodNames |-> 0]
  /\ warnCount = [m \in MethodNames |-> 0]
  /\ lastInvoke = NoInvoke
  /\ fsub = NoSub
  /\ dsub = NoSub
  /\ emitted = 0
  /\ docs = [d \in Docs |-> 0]
  /\ regs = << >>
  /\ lastClose = NoClose
  /\ lastDisp = NoDisp
  /\ lastReset = NoReset

Init ==
  /\ cfgEnv \in EnvValues
  /\ InitRest

\* A constructor that attaches the document model as it wires it.
ConstructEager ==
  /\ ~constructed
  /\ IF NormalizeThrows(cfgEnv)
       THEN /\ constructPc' = "threw"
            /\ UNCHANGED << constructed, userConfigFile, facade, attached >>
       ELSE /\ constructPc' = "returned"
            /\ constructed' = TRUE
            /\ userConfigFile' = UserConfigFile(cfgEnv)
            /\ facade' = [n \in FacadeNames |-> FacadeAlias(n)]
            /\ attached' = attached \cup { "documents" }
  /\ lastOp' = "construct"
  /\ UNCHANGED lastReset
  /\ UNCHANGED << cfgEnv, hostCalls, docsEnv, recov >>
  /\ UNCHANGED initVars
  /\ UNCHANGED disposeVars
  /\ UNCHANGED shimVars
  /\ UNCHANGED eventVars
  /\ UNCHANGED syncVars

\* new Workspace(): throws before any field is wired when COC_VIMCONFIG is
\* unset; otherwise wires the collaborators and aliases their events.
Construct ==
  /\ ~constructed
  /\ IF NormalizeThrows(cfgEnv)
       THEN /\ constructPc' = "threw"
            /\ UNCHANGED << constructed, userConfigFile, facade >>
       ELSE /\ constructPc' = "returned"
            /\ constructed' = TRUE
            /\ userConfigFile' = UserConfigFile(cfgEnv)
            /\ facade' = [n \in FacadeNames |-> FacadeAlias(n)]
  /\ lastOp' = "construct"
  /\ UNCHANGED lastReset
  /\ UNCHANGED << cfgEnv, hostCalls, attached, docsEnv, recov >>
  /\ UNCHANGED initVars
  /\ UNCHANGED disposeVars
  /\ UNCHANGED shimVars
  /\ UNCHANGED eventVars
  /\ UNCHANGED syncVars

\* ------------------------------------------------------------ init
\* Object.defineProperty(this, method, {get}) for each method in turn. The
\* descriptor names no `configurable`, so the property is not configurable and
\* defining it again with another getter throws a TypeError.
RECURSIVE InstallShim(_, _)
InstallShim(ps, i) ==
  IF i > Len(methods) THEN [props |-> ps, threw |-> FALSE]
  ELSE IF methods[i] \in ps THEN [props |-> ps, threw |-> TRUE]
  ELSE InstallShim(ps \cup { methods[i] }, i + 1)

\* A version check that only notices a host older than expected.
VersionMismatchOlder(snap) == snap.apiversion < APIVERSION

\* this._env.apiversion != APIVERSION
VersionMismatch(snap) == snap.apiversion # APIVERSION

\* Seeding placed after the first attach.
InitSyncStepsLateSeed(snap) ==
  (IF VersionMismatch(snap) THEN << "nvim.echoError" >> ELSE << >>) \o
  << "setWorkspaceFolders", "files.attach", "updateUserConfig",
     "contentProvider.attach", "keymaps.attach", "autocmds.attach",
     "locations.attach", "watchers.attach" >>

\* Two attaches in the other order.
InitSyncStepsSwapped(snap) ==
  (IF VersionMismatch(snap) THEN << "nvim.echoError" >> ELSE << >>) \o
  << "setWorkspaceFolders", "updateUserConfig", "files.attach",
     "contentProvider.attach", "autocmds.attach", "keymaps.attach",
     "locations.attach", "watchers.attach" >>

\* The calls init makes, in order, between the snapshot's arrival and the
\* call of this.attach().
InitSyncSteps(snap) ==
  (IF VersionMismatch(snap) THEN << "nvim.echoError" >> ELSE << >>) \o
  << "setWorkspaceFolders", "updateUserConfig", "files.attach",
     "contentProvider.attach", "keymaps.attach", "autocmds.attach",
     "locations.attach", "watchers.attach" >>

\* The collaborator a step attaches, or "none".
AttachTarget(step) ==
  CASE step = "files.attach" -> "files"
    [] step = "contentProvider.attach" -> "contentProvider"
    [] step = "keymaps.attach" -> "keymaps"
    [] step = "autocmds.attach" -> "autocmds"
    [] step = "locations.attach" -> "locations"
    [] step = "watchers.attach" -> "watchers"
    [] step = "documentsManager.attach" -> "documents"
    [] OTHER -> "none"

\* An exception that is swallowed: the statements after it still run.
ExecutedSwallow(steps, failAt) == steps

\* An exception leaves the function: of a straight-line run of calls whose
\* failAt-th throws (0: none throws), the calls that are made.
Executed(steps, failAt) ==
  IF failAt = 0 THEN steps ELSE SubSeq(steps, 1, failAt)

\* The call and the return or throw of each call made.
RECURSIVE StepEvents(_, _, _)
StepEvents(steps, failAt, i) ==
  IF i > Len(Executed(steps, failAt)) THEN << >>
  ELSE << << steps[i], "call" >>,
          << steps[i], IF i = failAt THEN "throw" ELSE "ret" >> >>
       \o StepEvents(steps, failAt, i + 1)

\* The calls that returned.
Returned(steps, failAt) ==
  { Executed(steps, failAt)[i] :
      i \in { j \in 1..Len(Executed(steps, failAt)) : j # failAt } }

\* WorkspaceFolderController.setWorkspaceFolders(folders)
setWorkspaceFolders(cur, v) == v

\* Configurations.updateUserConfig(props)
updateUserConfig(cur, v) == v

InitSettled == initPc \in { "idle", "resolved", "rejected" }

\* init(window), up to `await nvim.call('coc#util#vim_info')`.
InitStart ==
  /\ constructed
  /\ InitSettled
  /\ \E w \in Windows :
       LET r == InstallShim(props, 1) IN
         /\ props' = r.props
         /\ IF r.threw
              THEN /\ shimWindow' = shimWindow
                   /\ initTrace' = << << "defineProperty", "call" >>,
                                      << "defineProperty", "throw" >> >>
                   /\ initPc' = "rejected"
                   /\ initError' = "defineProperty"
                   /\ hostCalls' = hostCalls
              ELSE /\ shimWindow' = w
                   /\ initTrace' = << << "defineProperty", "call" >>,
                                      << "defineProperty", "ret" >>,
                                      << "nvim.call", "call" >> >>
                   /\ initPc' = "awaitEnv"
                   /\ initError' = "none"
                   /\ hostCalls' = Append(hostCalls, "nvim.call")
  /\ diag' = << >>
  /\ recov' = IF recov = "reset" THEN "reinit" ELSE "none"
  /\ lastOp' = "init"
  /\ UNCHANGED lastReset
  /\ UNCHANGED ctorVars
  /\ UNCHANGED << env, folders, config, attached, docsEnv >>
  /\ UNCHANGED disposeVars
  /\ UNCHANGED shimVars
  /\ UNCHANGED eventVars
  /\ UNCHANGED syncVars

\* init, from the answer to the snapshot request to the call of
\* this.attach(), which calls documentsManager.attach(nvim, env) and awaits.
InitEnvReply ==
  /\ initPc = "awaitEnv"
  /\ \/ /\ initTrace' = Append(initTrace, << "nvim.call", "throw" >>)
        /\ initPc' = "rejected"
        /\ initError' = "nvim.call"
        /\ UNCHANGED << env, folders, config, attached, docsEnv, diag, recov,
                        hostCalls >>
     \/ \E snap \in Snapshots :
        \E failAt \in 0..Len(InitSyncSteps(snap)) :
          LET steps == InitSyncSteps(snap)
              done == Returned(steps, failAt)
              made == Range(Executed(steps, failAt))
          IN
            /\ env' = snap
            /\ diag' = IF "nvim.echoError" \in made
                         THEN << << snap.apiversion, APIVERSION >> >>
                         ELSE << >>
            /\ hostCalls' = IF "nvim.echoError" \in made
                              THEN Append(hostCalls, "nvim.echoError")
                              ELSE hostCalls
            /\ folders' = IF "setWorkspaceFolders" \in done
                            THEN setWorkspaceFolders(folders, snap.workspaceFolders)
                            ELSE folders
            /\ config' = IF "updateUserConfig" \in done
                           THEN updateUserConfig(config, snap.config)
                           ELSE config
            /\ attached' = attached \cup
                             ({ AttachTarget(s) : s \in done } \ { "none" })
            /\ IF Len(Executed(steps, failAt)) = Len(steps) /\ failAt = 0
                 THEN /\ initTrace' = initTrace \o << << "nvim.call", "ret" >> >>
                                      \o StepEvents(steps, failAt, 1)
                                      \o << << "documentsManager.attach", "call" >> >>
                      /\ initPc' = "awaitDocs"
                      /\ initError' = "none"
                      /\ docsEnv' = snap
                      /\ recov' = recov
                 ELSE /\ initTrace' = initTrace \o << << "nvim.call", "ret" >> >>
                                      \o StepEvents(steps, failAt, 1)
                      /\ initPc' = "rejected"
                      /\ initError' = steps[failAt]
                      /\ docsEnv' = docsEnv
                      /\ recov' = IF AttachTarget(steps[failAt]) # "none"
                                    THEN "attachFailed" ELSE recov
  /\ lastOp' = "init"
  /\ UNCHANGED lastReset
  /\ UNCHANGED ctorVars
  /\ UNCHANGED << props, shimWindow >>
  /\ UNCHANGED disposeVars
  /\ UNCHANGED shimVars
  /\ UNCHANGED eventVars
  /\ UNCHANGED syncVars

\* init, when documentsManager.attach settles.
InitDocsReply ==
  /\ initPc = "awaitDocs"
  /\ \/ /\ initTrace' = Append(initTrace, << "documentsManager.attach", "ret" >>)
        /\ initPc' = "resolved"
        /\ initError' = "none"
        /\ attached' = attached \cup { "documents" }
        /\ recov' = recov
     \/ /\ initTrace' = Append(initTrace, << "documentsManager.attach", "throw" >>)
        /\ initPc' = "rejected"
        /\ initError' = "documentsManager.attach"
        /\ attached' = attached
        /\ recov' = "attachFailed"
  /\ lastOp' = "init"
  /\ UNCHANGED lastReset
  /\ UNCHANGED ctorVars
  /\ UNCHANGED << hostCalls, props, shimWindow, env, folders, config, docsEnv,
                  diag >>
  /\ UNCHANGED disposeVars
  /\ UNCHANGED shimVars
  /\ UNCHANGED eventVars
  /\ UNCHANGED syncVars

\* ------------------------------------------------------------ lifecycle
\* WorkspaceFolderController.reset()
FoldersReset(cur) == "empty"

\* Documents.reset()
DocumentsReset(cur) == [d \in Docs |-> 0]

\* A reset that also stops the document model observing the host.
ResetDetaching ==
  /\ constructed
  /\ InitSettled
  /\ folders' = FoldersReset(folders)
  /\ docs' = DocumentsReset(docs)
  /\ lastReset' = [done |-> TRUE, folders |-> folders,
                   docs |-> { d \in Docs : docs[d] > 0 }]
  /\ attached' = attached \ { "documents" }
  /\ recov' = IF recov = "attachFailed" THEN "reset" ELSE "none"
  /\ lastOp' = "reset"
  /\ UNCHANGED ctorVars
  /\ UNCHANGED << hostCalls, props, shimWindow, env, config, docsEnv, initPc,
                  initTrace, initError, diag >>
  /\ UNCHANGED << regs, lastClose, lastDisp >>
  /\ UNCHANGED disposeVars
  /\ UNCHANGED shimVars
  /\ UNCHANGED eventVars

\* reset(): workspaceFolderControl.reset(), then documentsManager.reset().
Reset ==
  /\ constructed
  /\ InitSettled
  /\ folders' = FoldersReset(folders)
  /\ docs' = DocumentsReset(docs)
  /\ lastReset' = [done |-> TRUE, folders |-> folders,
                   docs |-> { d \in Docs : docs[d] > 0 }]
  /\ recov' = IF recov = "attachFailed" THEN "reset" ELSE "none"
  /\ lastOp' = "reset"
  /\ UNCHANGED ctorVars
  /\ UNCHANGED << hostCalls, props, shimWindow, env, config, attached, docsEnv,
                  initPc, initTrace, initError, diag >>
  /\ UNCHANGED << regs, lastClose, lastDisp >>
  /\ UNCHANGED disposeVars
  /\ UNCHANGED shimVars
  /\ UNCHANGED eventVars

\* Two disposals in the other order.
DisposeStepsSwapped ==
  << "watchers.dispose", "contentProvider.dispose", "autocmds.dispose",
     "documentsManager.dispose", "configurations.dispose" >>

\* A dispose() that goes on to the keymaps.
DisposeStepsAll ==
  << "watchers.dispose", "autocmds.dispose", "contentProvider.dispose",
     "documentsManager.dispose", "configurations.dispose", "keymaps.dispose" >>

\* The calls dispose() makes, in order.
DisposeSteps ==
  << "watchers.dispose", "autocmds.dispose", "contentProvider.dispose",
     "documentsManager.dispose", "configurations.dispose" >>

\* dispose(): five calls in a row, none of them guarded.
Dispose ==
  /\ constructed
  /\ InitSettled
  /\ \E failAt \in 0..Len(DisposeSteps) :
       /\ disposeTrace' = StepEvents(DisposeSteps, failAt, 1)
       /\ disposePc' = IF failAt = 0 THEN "returned" ELSE "threw"
       /\ disposed' = disposed \cup Returned(DisposeSteps, failAt)
  /\ recov' = "none"
  /\ lastOp' = "dispose"
  /\ UNCHANGED lastReset
  /\ UNCHANGED ctorVars
  /\ UNCHANGED << hostCalls, attached, docsEnv >>
  /\ UNCHANGED initVars
  /\ UNCHANGED shimVars
  /\ UNCHANGED eventVars
  /\ UNCHANGED syncVars

\* detach(): await documentsManager.detach()
Detach ==
  /\ constructed
  /\ InitSettled
  /\ \E ok \in BOOLEAN :
       attached' = IF ok THEN attached \ { "documents" } ELSE attached
  /\ recov' = "none"
  /\ lastOp' = "detach"
  /\ UNCHANGED lastReset
  /\ UNCHANGED ctorVars
  /\ UNCHANGED << hostCalls, docsEnv >>
  /\ UNCHANGED initVars
  /\ UNCHANGED disposeVars
  /\ UNCHANGED shimVars
  /\ UNCHANGED eventVars
  /\ UNCHANGED syncVars

\* An attach that asks the host for a fresh snapshot first.
AttachRefetching ==
  /\ constructed
  /\ InitSettled
  /\ \E snap \in Snapshots :
       /\ env' = snap
       /\ docsEnv' = snap
  /\ hostCalls' = Append(hostCalls, "nvim.call")
  /\ \E ok \in BOOLEAN :
       attached' = IF ok THEN attached \cup { "documents" } ELSE attached
  /\ recov' = "none"
  /\ lastOp' = IF lastOp = "detach" THEN "reattach" ELSE "attach"
  /\ UNCHANGED lastReset
  /\ UNCHANGED ctorVars
  /\ UNCHANGED << props, shimWindow, folders, config, initPc, initTrace,
                  initError, diag >>
  /\ UNCHANGED disposeVars
  /\ UNCHANGED shimVars
  /\ UNCHANGED eventVars
  /\ UNCHANGED syncVars

\* attach(): await documentsManager.attach(this.nvim, this._env)
Attach ==
  /\ constructed
  /\ InitSettled
  /\ docsEnv' = env
  /\ \E ok \in BOOLEAN :
       attached' = IF ok THEN attached \cup { "documents" } ELSE attached
  /\ recov' = "none"
  /\ lastOp' = IF lastOp = "detach" THEN "reattach" ELSE "attach"
  /\ UNCHANGED lastReset
  /\ UNCHANGED ctorVars
  /\ UNCHANGED hostCalls
  /\ UNCHANGED initVars
  /\ UNCHANGED disposeVars
  /\ UNCHANGED shimVars
  /\ UNCHANGED eventVars
  /\ UNCHANGED syncVars

Next ==
  \/ Construct
  \/ InitStart
  \/ InitEnvReply
  \/ InitDocsReply
  \/ Reset
  \/ Dispose
  \/ Detach
  \/ Attach

Spec == Init /\ [][Next]_vars

\* ------------------------------------------------------------ shim
\* Argument lists and outcomes of a call on the window.
ArgLists == { << >>, << "a", "b" >>, << "b", "a" >> }
Outcomes == { << "return", "v" >>, << "throw", "e" >>, << "reject", "e" >> }

RECURSIVE SumOver(_, _)
SumOver(f, i) == IF i = 0 THEN 0 ELSE f[methods[i]] + SumOver(f, i - 1)

Total(f) == SumOver(f, Len(methods))

\* A getter that logs the deprecation itself.
AccessorGetWarns(method, window) ==
  [fn |-> [method |-> method, window |-> window], warns |-> 1]

\* get: () => (...args) => { ... }: a read of the accessor makes a closure
\* over method and window and logs nothing.
AccessorGet(method, window) ==
  [fn |-> [method |-> method, window |-> window], warns |-> 0]

\* Error().stack inside the forwarding function, split at the line breaks:
\* the header line, the frame of the forwarding function itself, then the
\* frames of its callers, innermost first. Call depths of one, two and four
\* callers.
FullStack ==
  << "Error", "at workspace.method", "at caller1", "at caller2", "at caller3",
     "at caller4" >>
Stacks == { SubSeq(FullStack, 1, n) : n \in { 3, 4, 6 } }

\* Array.prototype.slice(start, end) for 0 <= start <= end: the elements at
\* the zero-based indices start .. end - 1 that exist.
Slice(s, start, end) ==
  SubSeq(s, start + 1, IF end < Len(s) THEN end ELSE Len(s))

\* An excerpt that runs one line further.
StackExcerptLong(stack) == Slice(stack, 2, 5)

\* Error().stack.split('\n').slice(2, 4), the lines that are then joined.
StackExcerpt(stack) == Slice(stack, 2, 4)

\* `workspace.${method} is deprecated, please use window.${method} instead.`
Deprecation(method) ==
  [deprecated |-> << "workspace", method >>, use |-> << "window", method >>]

\* A forwarding function that hands the argument array over as one argument.
ForwardCallNotApply(fn, args, outcome, stack) ==
  [events |-> << [kind |-> "warn", target |-> "logger", method |-> fn.method,
                  args |-> << Deprecation(fn.method), StackExcerpt(stack) >>],
                 [kind |-> "call", target |-> fn.window, method |-> fn.method,
                  args |-> << args >>] >>,
   result |-> outcome]

\* The forwarding function: logger.warn(message, stack), then
\* return window[method].apply(window, args), whose outcome is `outcome`.
Forward(fn, args, outcome, stack) ==
  [events |-> << [kind |-> "warn", target |-> "logger", method |-> fn.method,
                  args |-> << Deprecation(fn.method), StackExcerpt(stack) >>],
                 [kind |-> "call", target |-> fn.window, method |-> fn.method,
                  args |-> args] >>,
   result |-> outcome]

Warnings(events) ==
  Cardinality({ i \in 1..Len(events) : events[i].kind = "warn" })

\* workspace[method]: a read of a shim accessor.
ReadAccessor ==
  /\ Total(readCount) < MaxReads
  /\ \E m \in props :
       LET r == AccessorGet(m, shimWindow) IN
         /\ fns' = fns \cup { r.fn }
         /\ readCount' = [readCount EXCEPT ![m] = @ + 1]
         /\ warnCount' = [warnCount EXCEPT ![m] = @ + r.warns]
  /\ UNCHANGED << invokeCount, lastInvoke >>
  /\ lastOp' = "use"
  /\ UNCHANGED lastReset
  /\ UNCHANGED ctorVars
  /\ UNCHANGED << hostCalls, attached, docsEnv, recov >>
  /\ UNCHANGED initVars
  /\ UNCHANGED disposeVars
  /\ UNCHANGED eventVars
  /\ UNCHANGED syncVars

\* A call of a forwarding function obtained earlier.
InvokeForward ==
  /\ Total(invokeCount) < MaxCalls
  /\ \E fn \in fns :
     \E args \in ArgLists :
     \E outcome \in Outcomes :
     \E stack \in Stacks :
       LET r == Forward(fn, args, outcome, stack) IN
         /\ invokeCount' = [invokeCount EXCEPT ![fn.method] = @ + 1]
         /\ warnCount' = [warnCount EXCEPT ![fn.method] = @ + Warnings(r.events)]
         /\ lastInvoke' = [method |-> fn.method, args |-> args,
                           outcome |-> outcome, stack |-> stack,
                           events |-> r.events, result |-> r.result]
  /\ UNCHANGED << fns, readCount >>
  /\ lastOp' = "use"
  /\ UNCHANGED lastReset
  /\ UNCHANGED ctorVars
  /\ UNCHANGED << hostCalls, attached, docsEnv, recov >>
  /\ UNCHANGED initVars
  /\ UNCHANGED disposeVars
  /\ UNCHANGED eventVars
  /\ UNCHANGED syncVars

NextShim ==
  \/ Construct
  \/ InitStart
  \/ ReadAccessor
  \/ InvokeForward

\* The shim from its installation on; init's later steps do not touch it.
SpecShim == Init /\ [][NextShim]_vars

\* C8: for every deprecated method, the warnings logged equal the invocations
\* of its forwarding functions: a read of the accessor logs nothing and every
\* invocation logs exactly one warning, whichever read the function came from.
C8_WarningPerInvocation ==
  \A m \in MethodNames : warnCount[m] = invokeCount[m]

\* The function of a single read, invoked twice: two warnings.
C8_Witness ==
  \E m \in MethodNames :
    /\ readCount[m] = 1
    /\ invokeCount[m] = 2
    /\ warnCount[m] = 2

\* C9: a forwarding invocation for method m with arguments a logs the
\* warning, then calls m on the window the shim was installed against, once,
\* with exactly a, and its outcome is that call's outcome.
C9_ForwardUnchanged ==
  lastInvoke # NoInvoke =>
    /\ Len(lastInvoke.events) = 2
    /\ lastInvoke.events[1].kind = "warn"
    /\ lastInvoke.events[1].target = "logger"
    /\ lastInvoke.events[2] =
         [kind |-> "call", target |-> shimWindow,
          method |-> lastInvoke.method, args |-> lastInvoke.args]
    /\ lastInvoke.result = lastInvoke.outcome

\* A forwarded call with two arguments whose target rejected.
C9_Witness ==
  /\ lastInvoke.method = "moveTo"
  /\ lastInvoke.args = << "b", "a" >>
  /\ lastInvoke.result = << "reject", "e" >>

\* ------------------------------------------------------------ properties
RECURSIVE CallsOf(_)
CallsOf(trace) ==
  IF trace = << >> THEN << >>
  ELSE (IF Head(trace)[2] = "call" THEN << Head(trace)[1] >> ELSE << >>)
       \o CallsOf(Tail(trace))

IsPrefix(a, b) == Len(a) <= Len(b) /\ a = SubSeq(b, 1, Len(a))

Occurs(trace, ev) == \E i \in 1..Len(trace) : trace[i] = ev

\* The position of the first ev in trace, 0 if there is none.
Pos(trace, ev) ==
  IF Occurs(trace, ev)
    THEN CHOOSE i \in 1..Len(trace) :
           trace[i] = ev /\ \A j \in 1..(i - 1) : trace[j] # ev
    ELSE 0

\* ev occurs in trace strictly before position k.
Before(trace, ev, k) == \E i \in 1..(k - 1) : i <= Len(trace) /\ trace[i] = ev

ExpectedAttachOrder ==
  << "files.attach", "contentProvider.attach", "keymaps.attach",
     "autocmds.attach", "locations.attach", "watchers.attach",
     "documentsManager.attach" >>

IsAttachStep(s) == s \in Range(ExpectedAttachOrder)

\* C1: in every init, the attach calls made so far are a prefix of files,
\* contentProvider, keymaps, autocmds, locations, watchers, documents (each
\* once, in that order), and the documents attach is called only after each
\* of the six others has returned.
C1_AttachOrder ==
  /\ IsPrefix(SelectSeq(CallsOf(initTrace), IsAttachStep), ExpectedAttachOrder)
  /\ \A k \in 1..Len(initTrace) :
       initTrace[k] = << "documentsManager.attach", "call" >> =>
         \A i \in 1..6 : Before(initTrace, << ExpectedAttachOrder[i], "ret" >>, k)

\* An init that attached all six services and then the document model.
C1_Witness ==
  /\ initPc = "resolved"
  /\ Len(SelectSeq(CallsOf(initTrace), IsAttachStep)) = 7

\* C2: every init starts with the shim installation, requests the snapshot
\* exactly once after it, then seeds the folders, then the configuration, both
\* from the snapshot; no attach is called before the request has returned and
\* both seedings have returned.
C2_HandshakeOrder ==
  /\ initTrace # << >> => initTrace[1] = << "defineProperty", "call" >>
  /\ Cardinality({ i \in 1..Len(initTrace) :
                     initTrace[i] = << "nvim.call", "call" >> })
       = (IF Occurs(initTrace, << "defineProperty", "ret" >>) THEN 1 ELSE 0)
  /\ \A k \in 1..Len(initTrace) :
       IsAttachStep(initTrace[k][1]) =>
         /\ Pos(initTrace, << "nvim.call", "call" >>) = 3
         /\ 3 < Pos(initTrace, << "nvim.call", "ret" >>)
         /\ Pos(initTrace, << "nvim.call", "ret" >>)
              < Pos(initTrace, << "setWorkspaceFolders", "ret" >>)
         /\ Pos(initTrace, << "setWorkspaceFolders", "ret" >>)
              < Pos(initTrace, << "updateUserConfig", "ret" >>)
         /\ Pos(initTrace, << "updateUserConfig", "ret" >>) < k
  /\ initPc = "awaitDocs" =>
       /\ folders = env.workspaceFolders
       /\ config = env.config

\* An init that has seeded both stores and started attaching.
C2_Witness ==
  /\ initPc = "awaitDocs"
  /\ folders = "foldersB"
  /\ config = "configA"

\* C3: once the snapshot has arrived, init has emitted one diagnostic naming
\* the reported version and 17 if they differ and none if they are equal; and
\* an init that completes has seeded both stores from the snapshot and has run
\* all seven attach steps, whatever the version.
C3_VersionMismatch ==
  /\ [](Occurs(initTrace, << "nvim.call", "ret" >>) =>
          diag = (IF env.apiversion # 17
                    THEN << << env.apiversion, 17 >> >> ELSE << >>))
  /\ [][(initPc = "awaitDocs" /\ initPc' = "resolved") =>
          /\ folders' = env'.workspaceFolders
          /\ config' = env'.config
          /\ \A i \in 1..7 : Occurs(initTrace', << ExpectedAttachOrder[i], "ret" >>)
          /\ { "files", "contentProvider", "keymaps", "autocmds", "locations",
               "watchers", "documents" } \subseteq attached']_vars

\* An init that completed although the host reported a newer version.
C3_Witness ==
  /\ initPc = "resolved"
  /\ env.apiversion = 18
  /\ diag = << << 18, 17 >> >>
  /\ Occurs(initTrace, << "documentsManager.attach", "ret" >>)

\* C4: when an attach step of init throws, it is the last thing init does,
\* init rejects with that step's failure, and every service whose attach
\* returned before it is still attached.
C4_AttachFailureAborts ==
  \A k \in 1..Len(initTrace) :
    (IsAttachStep(initTrace[k][1]) /\ initTrace[k][2] = "throw") =>
      /\ k = Len(initTrace)
      /\ initPc = "rejected"
      /\ initError = initTrace[k][1]
      /\ \A i \in 1..(k - 1) :
           (IsAttachStep(initTrace[i][1]) /\ initTrace[i][2] = "ret") =>
             AttachTarget(initTrace[i][1]) \in attached

\* An init whose keymaps attach threw after two services were attached.
C4_Witness ==
  /\ initError = "keymaps.attach"
  /\ attached = { "files", "contentProvider" }

\* The calls of init that go to the host or to a collaborator.
HostSteps ==
  { "nvim.call", "nvim.echoError", "setWorkspaceFolders", "updateUserConfig" }
    \cup Range(ExpectedAttachOrder)

\* C5: an init that follows an attach failure and a reset(), and in which
\* no host call fails, completes: it installs the shim, fetches the snapshot,
\* seeds both stores and runs all seven attach steps.
C5_ReinitCompletes ==
  (recov = "reinit" /\ InitSettled /\ initError \notin HostSteps) =>
    /\ initPc = "resolved"
    /\ Occurs(initTrace, << "defineProperty", "ret" >>)
    /\ Occurs(initTrace, << "nvim.call", "ret" >>)
    /\ \A i \in 1..7 : Occurs(initTrace, << ExpectedAttachOrder[i], "ret" >>)

ExpectedDisposeOrder ==
  << "watchers.dispose", "autocmds.dispose", "contentProvider.dispose",
     "documentsManager.dispose", "configurations.dispose" >>

\* C6: the disposals a dispose() invokes are a prefix of watchers, autocmds,
\* contentProvider, documentsManager, configurations (each at most once, in
\* that order), and a dispose() that returns has invoked all five.
C6_DisposeOrder ==
  /\ IsPrefix(CallsOf(disposeTrace), ExpectedDisposeOrder)
  /\ disposePc = "returned" => CallsOf(disposeTrace) = ExpectedDisposeOrder

\* A dispose() that returned.
C6_Witness ==
  /\ disposePc = "returned"
  /\ Len(disposeTrace) = 10

\* C7: when the disposal of one collaborator throws, the disposal of each of
\* the other four is still invoked and dispose() completes.
C7_DisposeIsolatesFailures ==
  \A s \in Range(ExpectedDisposeOrder) :
    Occurs(disposeTrace, << s, "throw" >>) =>
      /\ \A t \in Range(ExpectedDisposeOrder) : Occurs(disposeTrace, << t, "call" >>)
      /\ disposePc = "returned"

\* ------------------------------------------------------------ events
\* The event members of the subcomponents that the constructor reads.
Streams ==
  { << "watchers", "onDidRuntimePathChange" >>,
    << "workspaceFolderControl", "onDidChangeWorkspaceFolders" >>,
    << "configurations", "onDidChange" >>,
    << "documents", "onDidOpenTextDocument" >>,
    << "documents", "onDidChangeDocument" >>,
    << "documents", "onDidCloseDocument" >>,
    << "documents", "onDidSaveTextDocument" >>,
    << "documents", "onWillSaveTextDocument" >>,
    << "documents", "onDidOpenTerminal" >>,
    << "documents", "onDidCloseTerminal" >>,
    << "files", "onDidCreateFiles" >>,
    << "files", "onDidRenameFiles" >>,
    << "files", "onDidDeleteFiles" >>,
    << "files", "onWillCreateFiles" >>,
    << "files", "onWillRenameFiles" >>,
    << "files", "onWillDeleteFiles" >> }

\* An emitter hands each emission to every listener registered on it.
Deliver(sub, stream, payload) ==
  IF sub # NoSub /\ sub.stream = stream
    THEN [sub EXCEPT !.log = Append(@, payload)]
    ELSE sub

\* workspace.<name>(listener): the call goes to the function the facade
\* field holds, which registers the listener on that function's emitter.
SubscribeFacade ==
  /\ constructed
  /\ fsub = NoSub
  /\ \E n \in FacadeNames :
       fsub' = [key |-> n, stream |-> facade[n], start |-> emitted, log |-> << >>]
  /\ UNCHANGED << dsub, emitted >>
  /\ lastOp' = "use"
  /\ UNCHANGED lastReset
  /\ UNCHANGED ctorVars
  /\ UNCHANGED << hostCalls, attached, docsEnv, recov >>
  /\ UNCHANGED initVars
  /\ UNCHANGED disposeVars
  /\ UNCHANGED shimVars
  /\ UNCHANGED syncVars

\* <subcomponent>.<event>(listener)
SubscribeDirect ==
  /\ constructed
  /\ dsub = NoSub
  /\ \E st \in Streams :
       dsub' = [key |-> st[2], stream |-> st, start |-> emitted, log |-> << >>]
  /\ UNCHANGED << fsub, emitted >>
  /\ lastOp' = "use"
  /\ UNCHANGED lastReset
  /\ UNCHANGED ctorVars
  /\ UNCHANGED << hostCalls, attached, docsEnv, recov >>
  /\ UNCHANGED initVars
  /\ UNCHANGED disposeVars
  /\ UNCHANGED shimVars
  /\ UNCHANGED syncVars

\* A subcomponent fires one of its events; the n-th emission carries n.
Fire ==
  /\ constructed
  /\ emitted < MaxEmit
  /\ emitted' = emitted + 1
  /\ \E st \in Streams :
       /\ fsub' = Deliver(fsub, st, emitted + 1)
       /\ dsub' = Deliver(dsub, st, emitted + 1)
  /\ lastOp' = "use"
  /\ UNCHANGED lastReset
  /\ UNCHANGED ctorVars
  /\ UNCHANGED << hostCalls, attached, docsEnv, recov >>
  /\ UNCHANGED initVars
  /\ UNCHANGED disposeVars
  /\ UNCHANGED shimVars
  /\ UNCHANGED syncVars

NextEvents ==
  \/ Construct
  \/ SubscribeFacade
  \/ SubscribeDirect
  \/ Fire

SpecEvents == Init /\ [][NextEvents]_vars

\* The subcomponent event each facade name stands for.
OwningEvent(name) ==
  CASE name = "onDidRuntimePathChange" -> << "watchers", "onDidRuntimePathChange" >>
    [] name = "onDidChangeWorkspaceFolders" -> << "workspaceFolderControl", "onDidChangeWorkspaceFolders" >>
    [] name = "onDidChangeConfiguration" -> << "configurations", "onDidChange" >>
    [] name = "onDidChangeTextDocument" -> << "documents", "onDidChangeDocument" >>
    [] name = "onDidCloseTextDocument" -> << "documents", "onDidCloseDocument" >>
    [] name \in { "onDidOpenTextDocument", "onDidSaveTextDocument",
                  "onWillSaveTextDocument", "onDidOpenTerminal",
                  "onDidCloseTerminal" } -> << "documents", name >>
    [] OTHER -> << "files", name >>

\* The payloads of log that were emitted after the first n emissions.
After(log, n) ==
  IF log = << >> THEN << >>
  ELSE SubSeq(log, Cardinality({ i \in 1..Len(log) : log[i] <= n }) + 1, Len(log))

Max(a, b) == IF a >= b THEN a ELSE b

\* C10: a subscriber attached through a facade name and a subscriber attached
\* on the owning subcomponent's event have received, since both were attached,
\* the same payloads in the same order; and the facade subscriber has missed
\* no emission a direct subscriber attached no later has received.
C10_FacadeIsAlias ==
  (fsub # NoSub /\ dsub # NoSub /\ dsub.stream = OwningEvent(fsub.key)) =>
    After(fsub.log, Max(fsub.start, dsub.start))
      = After(dsub.log, Max(fsub.start, dsub.start))

\* Both subscribers on the document-close event, three emissions on it, the
\* facade subscriber attached after the first.
C10_Witness ==
  /\ fsub.key = "onDidCloseTextDocument"
  /\ dsub.stream = << "documents", "onDidCloseDocument" >>
  /\ dsub.log = << 1, 2, 3 >>
  /\ fsub.log = << 2, 3 >>

\* ------------------------------------------------------------ sync registries
\* What a factory makes of a document: nothing, a state object, or a state
\* object with a teardown.
Factories ==
  { [typescript |-> "itemTd", plaintext |-> "none"],
    [typescript |-> "item", plaintext |-> "itemTd"] }

NoItem == [owner |-> 0, kind |-> "none"]

OpenDocs == { d \in Docs : docs[d] > 0 }

\* The registry's create for one document: the factory is invoked once and
\* its result, if any, is stored under the document.
SyncCreate(reg, d) ==
  LET made == reg.factory[Language(d)] IN
    [reg EXCEPT !.calls[d] = @ + 1,
                !.items[d] = IF made = "none" THEN NoItem
                             ELSE [owner |-> reg.id, kind |-> made]]

RECURSIVE SyncCreateAll(_, _)
SyncCreateAll(reg, ds) ==
  IF ds = {} THEN reg
  ELSE LET d == CHOOSE x \in ds : TRUE IN
         SyncCreateAll(SyncCreate(reg, d), ds \ { d })

\* new BufferSync(create, workspace): the factory is invoked for every
\* document of the workspace, and the registry observes the workspace's
\* document-open and document-close events.
NewBufferSync(create, ws) ==
  SyncCreateAll(
    [id |-> ws.id, factory |-> create, disposed |-> FALSE,
     openStream |-> ws.onDidOpenTextDocument,
     closeStream |-> ws.onDidCloseTextDocument,
     items |-> [d \in Docs |-> NoItem],
     calls |-> [d \in Docs |-> 0],
     tds |-> [d \in Docs |-> 0]],
    ws.documents)

\* A registry made for a workspace that shows no documents.
registerBufferSyncBlind(create, ws) ==
  NewBufferSync(create, [ws EXCEPT !.documents = {}])

\* registerBufferSync(create): new BufferSync(create, this)
registerBufferSync(create, ws) == NewBufferSync(create, ws)

\* What a registry sees of the workspace it is handed.
WorkspaceView ==
  [id |-> Len(regs) + 1,
   documents |-> OpenDocs,
   onDidOpenTextDocument |-> facade["onDidOpenTextDocument"],
   onDidCloseTextDocument |-> facade["onDidCloseTextDocument"]]

DocsObserving == constructed /\ "documents" \in attached

RegisterSync ==
  /\ constructed
  /\ Len(regs) < MaxRegs
  /\ \E create \in Factories :
       regs' = Append(regs, registerBufferSync(create, WorkspaceView))
  /\ UNCHANGED << docs, lastClose, lastDisp >>
  /\ lastOp' = "use"
  /\ UNCHANGED lastReset
  /\ UNCHANGED ctorVars
  /\ UNCHANGED << hostCalls, attached, docsEnv, recov >>
  /\ UNCHANGED initVars
  /\ UNCHANGED disposeVars
  /\ UNCHANGED shimVars
  /\ UNCHANGED eventVars

\* The registry's handler for a closed document: teardown, then removal, when
\* it holds an entry; nothing otherwise.
SyncDelete(reg, d) ==
  IF reg.items[d] = NoItem THEN reg
  ELSE [reg EXCEPT !.tds[d] = IF reg.items[d].kind = "itemTd" THEN @ + 1 ELSE @,
                   !.items[d] = NoItem]

SyncDeleteEvents(reg, d) ==
  IF reg.items[d] = NoItem THEN << >>
  ELSE (IF reg.items[d].kind = "itemTd"
          THEN << << "teardown", reg.id >> >> ELSE << >>)
       \o << << "remove", reg.id >> >>

\* What a live registry does when `stream` fires for document d.
SyncOnEvent(reg, stream, d) ==
  IF reg.disposed THEN reg
  ELSE LET r1 == IF reg.openStream = stream THEN SyncCreate(reg, d) ELSE reg
       IN IF r1.closeStream = stream THEN SyncDelete(r1, d) ELSE r1

RECURSIVE CloseEvents(_, _, _, _)
CloseEvents(rs, stream, d, i) ==
  IF i > Len(rs) THEN << >>
  ELSE (IF ~rs[i].disposed /\ rs[i].closeStream = stream
          THEN SyncDeleteEvents(
                 IF rs[i].openStream = stream THEN SyncCreate(rs[i], d) ELSE rs[i], d)
          ELSE << >>)
       \o CloseEvents(rs, stream, d, i + 1)

\* The host opens a buffer: the document model adds the document and fires
\* its open event.
OpenDoc ==
  /\ DocsObserving
  /\ \E d \in Docs :
       /\ docs[d] = 0
       /\ docs' = [docs EXCEPT ![d] = 1]
       /\ regs' = [i \in 1..Len(regs) |->
                     SyncOnEvent(
                       IF regs[i].disposed THEN regs[i]
                       ELSE [regs[i] EXCEPT !.calls[d] = 0, !.tds[d] = 0],
                       << "documents", "onDidOpenTextDocument" >>, d)]
  /\ UNCHANGED << lastClose, lastDisp >>
  /\ lastOp' = "use"
  /\ UNCHANGED lastReset
  /\ UNCHANGED ctorVars
  /\ UNCHANGED << hostCalls, attached, docsEnv, recov >>
  /\ UNCHANGED initVars
  /\ UNCHANGED disposeVars
  /\ UNCHANGED shimVars
  /\ UNCHANGED eventVars

\* The host changes a buffer: the version grows and the change event fires.
ChangeDoc ==
  /\ DocsObserving
  /\ \E d \in Docs :
       /\ docs[d] > 0
       /\ docs[d] < MaxVersion
       /\ docs' = [docs EXCEPT ![d] = @ + 1]
       /\ regs' = [i \in 1..Len(regs) |->
                     SyncOnEvent(regs[i], << "documents", "onDidChangeDocument" >>, d)]
  /\ UNCHANGED << lastClose, lastDisp >>
  /\ lastOp' = "use"
  /\ UNCHANGED lastReset
  /\ UNCHANGED ctorVars
  /\ UNCHANGED << hostCalls, attached, docsEnv, recov >>
  /\ UNCHANGED initVars
  /\ UNCHANGED disposeVars
  /\ UNCHANGED shimVars
  /\ UNCHANGED eventVars

\* The host closes a buffer: the document model drops the document and fires
\* its close event.
CloseDoc ==
  /\ DocsObserving
  /\ \E d \in Docs :
       /\ docs[d] > 0
       /\ docs' = [docs EXCEPT ![d] = 0]
       /\ regs' = [i \in 1..Len(regs) |->
                     SyncOnEvent(regs[i], << "documents", "onDidCloseDocument" >>, d)]
       /\ lastClose' = [doc |-> d,
                        before |-> [i \in 1..Len(regs) |-> regs[i].items[d].kind],
                        events |-> CloseEvents(regs, << "documents", "onDidCloseDocument" >>, d, 1)]
  /\ UNCHANGED lastDisp
  /\ lastOp' = "use"
  /\ UNCHANGED lastReset
  /\ UNCHANGED ctorVars
  /\ UNCHANGED << hostCalls, attached, docsEnv, recov >>
  /\ UNCHANGED initVars
  /\ UNCHANGED disposeVars
  /\ UNCHANGED shimVars
  /\ UNCHANGED eventVars

\* The documents whose entry in reg has a teardown.
WithTeardown(reg) == { d \in Docs : reg.items[d].kind = "itemTd" }

RECURSIVE TeardownEvents(_)
TeardownEvents(ds) ==
  IF ds = {} THEN << >>
  ELSE LET d == CHOOSE x \in ds : TRUE IN
         << << "teardown", d >> >> \o TeardownEvents(ds \ { d })

\* A disposal that stops observing but leaves the mapping as it is.
SyncDisposeNoClear(reg) ==
  IF reg.disposed THEN reg
  ELSE [reg EXCEPT !.disposed = TRUE,
                   !.tds = [d \in Docs |->
                              IF reg.items[d].kind = "itemTd" THEN @[d] + 1 ELSE @[d]]]

\* registryHandle.dispose(): teardown of every remaining entry, the mapping
\* cleared, the document model no longer observed; nothing on a second call.
SyncDispose(reg) ==
  IF reg.disposed THEN reg
  ELSE [reg EXCEPT !.disposed = TRUE,
                   !.items = [d \in Docs |-> NoItem],
                   !.tds = [d \in Docs |->
                              IF reg.items[d].kind = "itemTd" THEN @[d] + 1 ELSE @[d]]]

DisposeRegistry ==
  /\ \E i \in 1..Len(regs) :
       /\ regs' = [regs EXCEPT ![i] = SyncDispose(@)]
       /\ lastDisp' = [reg |-> i, again |-> regs[i].disposed,
                       before |-> [d \in Docs |-> regs[i].items[d].kind],
                       events |-> IF regs[i].disposed THEN << >>
                                  ELSE TeardownEvents(WithTeardown(regs[i]))]
  /\ UNCHANGED << docs, lastClose >>
  /\ lastOp' = "use"
  /\ UNCHANGED lastReset
  /\ UNCHANGED ctorVars
  /\ UNCHANGED << hostCalls, attached, docsEnv, recov >>
  /\ UNCHANGED initVars
  /\ UNCHANGED disposeVars
  /\ UNCHANGED shimVars
  /\ UNCHANGED eventVars

\* attach() called while the document model is not observing the host.
AttachDocuments ==
  /\ ~DocsObserving
  /\ Attach

NextSync ==
  \/ Construct
  \/ AttachDocuments
  \/ RegisterSync
  \/ OpenDoc
  \/ ChangeDoc
  \/ CloseDoc
  \/ DisposeRegistry

\* The registries and the documents, with the document model attached by
\* attach().
SpecSync == Init /\ [][NextSync]_vars

Live(i) == ~regs[i].disposed

\* C11: for every live registry and every open document, the registry holds
\* one entry of its own for the document if its factory accepts the document
\* and none if it declines; it holds no entry for a document that is not open;
\* no entry of a registry belongs to another registry.
C11_OneEntryPerAcceptedDocument ==
  \A i \in 1..Len(regs) :
    Live(i) =>
      \A d \in Docs :
        IF d \in OpenDocs /\ regs[i].factory[Language(d)] # "none"
          THEN regs[i].items[d] =
                 [owner |-> i, kind |-> regs[i].factory[Language(d)]]
          ELSE regs[i].items[d] = NoItem

\* The example of the spec: a typescript-only factory, A and B opened, A then
\* closed, next to a registry that still keeps B.
C11_Witness ==
  /\ Len(regs) = 2
  /\ Live(1) /\ Live(2)
  /\ regs[1].factory = [typescript |-> "itemTd", plaintext |-> "none"]
  /\ regs[2].factory = [typescript |-> "item", plaintext |-> "itemTd"]
  /\ lastClose.doc = "A"
  /\ OpenDocs = { "B" }
  /\ regs[1].items = [d \in Docs |-> NoItem]
  /\ regs[2].items["B"] = [owner |-> 2, kind |-> "itemTd"]

\* C12: a factory is invoked at most once for one open of one document; a
\* live registry has invoked it exactly once for every document that is open,
\* whether the document was open at registration or opened afterwards, and not
\* at all for a document that has not been open since the registration. A
\* change or a close never invokes it.
C12_FactoryOncePerOpen ==
  /\ \A i \in 1..Len(regs) : \A d \in Docs :
       /\ regs[i].calls[d] <= 1
       /\ (Live(i) /\ d \in OpenDocs) => regs[i].calls[d] = 1
  /\ [][\A i \in 1..Len(regs) : \A d \in Docs :
          (i <= Len(regs') /\ docs[d] > 0) =>
            regs'[i].calls[d] = regs[i].calls[d]]_vars
  /\ [][\A d \in Docs :
          (Len(regs') > Len(regs) /\ docs[d] = 0) =>
            regs'[Len(regs')].calls[d] = 0]_vars

\* A registry made while A was open and changed, B opened afterwards.
C12_Witness ==
  /\ Len(regs) >= 1
  /\ Live(1)
  /\ docs["A"] = 2
  /\ docs["B"] = 1
  /\ regs[1].calls = [d \in Docs |-> 1]
  /\ lastClose.doc = "B"

\* What registry i must do on the close of a document whose entry was `kind`.
ExpectedOnClose(kind, i) ==
  CASE kind = "itemTd" -> << << "teardown", i >>, << "remove", i >> >>
    [] kind = "item" -> << << "remove", i >> >>
    [] OTHER -> << >>

\* C13: on the close of a document, each registry that held an entry for it
\* invokes the entry's teardown once, if it has one, and then removes the
\* entry; a registry without an entry does nothing; the entries of the other
\* documents stay as they were; no entry is torn down twice.
C13_CloseTearsDownThenRemoves ==
  /\ [](lastClose # NoClose =>
          \A i \in 1..Len(lastClose.before) :
            SelectSeq(lastClose.events, LAMBDA e : e[2] = i)
              = ExpectedOnClose(lastClose.before[i], i))
  /\ [](\A i \in 1..Len(regs) : \A d \in Docs : regs[i].tds[d] <= 1)
  /\ [][\A d \in Docs :
          (docs[d] > 0 /\ docs'[d] = 0) =>
            /\ lastClose'.doc = d
            /\ \A i \in 1..Len(regs) :
                 /\ regs'[i].items[d] = NoItem
                 /\ \A e \in Docs \ { d } : regs'[i].items[e] = regs[i].items[e]]_vars

\* B closed while A stays open: the second registry tore its entry for B down
\* and removed it, the first had none; both keep their entries for A.
C13_Witness ==
  /\ Len(regs) = 2
  /\ lastClose = [doc |-> "B", before |-> << "none", "itemTd" >>,
                  events |-> << << "teardown", 2 >>, << "remove", 2 >> >>]
  /\ regs[1].items["A"].kind = "itemTd"
  /\ regs[2].items["A"].kind = "item"
  /\ regs[2].tds["B"] = 1

\* C14: the first disposal of a registry invokes the teardown of each
\* remaining entry that has one, once, and leaves the registry empty; from
\* then on nothing changes in it: no open or close creates an entry in it or
\* invokes its factory or a teardown, and a further disposal invokes nothing.
C14_DisposeClearsAndStops ==
  /\ [](\A i \in 1..Len(regs) :
          regs[i].disposed => regs[i].items = [d \in Docs |-> NoItem])
  /\ [](lastDisp # NoDisp =>
          /\ regs[lastDisp.reg].disposed
          /\ IF lastDisp.again
               THEN lastDisp.events = << >>
               ELSE /\ Range(lastDisp.events) =
                         { << "teardown", d >> :
                             d \in { e \in Docs : lastDisp.before[e] = "itemTd" } }
                    /\ Len(lastDisp.events) = Cardinality(Range(lastDisp.events)))
  /\ [][\A i \in 1..Len(regs) : regs[i].disposed => regs'[i] = regs[i]]_vars

\* A registry disposed while it held both documents, disposed again, and a
\* document closed and opened again since.
C14_Witness ==
  /\ Len(regs) = 2
  /\ regs[2].disposed
  /\ regs[2].calls = [d \in Docs |-> 1]
  /\ regs[2].tds = [d \in Docs |-> IF d = "B" THEN 1 ELSE 0]
  /\ lastDisp.reg = 2
  /\ lastDisp.again
  /\ lastClose.doc = "B"
  /\ OpenDocs = Docs
  /\ regs[1].items["A"].kind = "itemTd"

\* ------------------------------------------------------------ lifecycle frame
LifecycleCalls == { "attach", "reattach", "detach", "reset", "dispose" }

\* C15: no attach(), detach(), reset() or dispose() changes the stored
\* snapshot or sends anything to the host, a new snapshot request included;
\* and attach() hands the document model the stored snapshot, after a detach()
\* as well.
C15_EnvWrittenOnlyByInit ==
  [][lastOp' \in LifecycleCalls =>
       /\ env' = env
       /\ hostCalls' = hostCalls
       /\ (lastOp' \in { "attach", "reattach" } => docsEnv' = env)]_vars

\* init resolved with a snapshot, then detach(), then attach(): the document
\* model is attached again with that snapshot, fetched once.
C15_Witness ==
  /\ lastOp = "reattach"
  /\ initPc = "resolved"
  /\ env \in Snapshots
  /\ docsEnv = env
  /\ "documents" \in attached
  /\ hostCalls = << "nvim.call" >>

\* The lifecycle with host buffers opening and closing while the document
\* model observes them.
NextDocs ==
  \/ Construct
  \/ InitStart
  \/ InitEnvReply
  \/ InitDocsReply
  \/ Reset
  \/ Detach
  \/ Attach
  \/ OpenDoc
  \/ CloseDoc

SpecDocs == Init /\ [][NextDocs]_vars

\* C16: detach() changes nothing but the document model's attachment: the
\* folders, the configuration, the cached documents, the snapshot, the other
\* attachments and the disposals stay. reset() empties the folder registry and
\* the document cache and changes no attachment (the document model's
\* included), nor the configuration, the snapshot or the disposals.
C16_DetachResetFrame ==
  [][/\ lastOp' = "detach" =>
          /\ attached' \in { attached, attached \ { "documents" } }
          /\ UNCHANGED << folders, config, docs, env, docsEnv, disposed,
                          props, hostCalls >>
     /\ lastOp' = "reset" =>
          /\ folders' = "empty"
          /\ docs' = [d \in Docs |-> 0]
          /\ UNCHANGED << attached, config, env, docsEnv, disposed, props,
                          hostCalls >>]_vars

\* reset() found folders and two cached documents and left everything
\* attached; later the documents were opened again and detach() took the
\* document model off, leaving the caches and the six services as they were.
C16_Witness ==
  /\ lastOp = "detach"
  /\ lastReset.done
  /\ lastReset.folders # "empty"
  /\ lastReset.docs = Docs
  /\ folders = "empty"
  /\ OpenDocs = Docs
  /\ config # "empty"
  /\ env \in Snapshots
  /\ attached = { "files", "contentProvider", "keymaps", "autocmds",
                  "locations", "watchers" }

Frames(stack, a, b) ==
  [i \in 1..((IF b + 1 < Len(stack) THEN b + 1 ELSE Len(stack)) - a) |->
     stack[a + i]]

\* The warning of the last forwarding invocation.
LastWarning == lastInvoke.events[1]

\* C18 as stated: the warning names window.<method> and carries the second
\* through fourth frames of the stack captured at the invocation.
C18_ThreeFrames ==
  lastInvoke # NoInvoke =>
    /\ LastWarning.kind = "warn"
    /\ LastWarning.args[1].use = << "window", lastInvoke.method >>
    /\ LastWarning.args[2] = Frames(lastInvoke.stack, 2, 4)

\* C18: the warning of a forwarding invocation names window.<method> as the
\* replacement and carries the second and the third frame of the stack
\* captured at the invocation: at most two frames, the forwarding function's
\* own frame not among them.
C18_TwoFrames ==
  lastInvoke # NoInvoke =>
    /\ LastWarning.kind = "warn"
    /\ LastWarning.args[1].use = << "window", lastInvoke.method >>
    /\ LastWarning.args[2] = Frames(lastInvoke.stack, 2, 3)
    /\ Len(LastWarning.args[2]) <= 2
    /\ \A i \in 1..Len(LastWarning.args[2]) :
         LastWarning.args[2][i] # lastInvoke.stack[2]

\* An invocation four callers deep: the warning carries caller1 and caller2.
C18_Witness ==
  /\ lastInvoke # NoInvoke
  /\ Len(lastInvoke.stack) = 6
  /\ LastWarning.args[1].use = << "window", "showMessage" >>
  /\ LastWarning.args[2] = << "at caller1", "at caller2" >>

\* ------------------------------------------------------------ config path
\* The constructor over more values of COC_VIMCONFIG, and init's handshake
\* after it.
InitPath ==
  /\ cfgEnv \in PathInputs
  /\ InitRest

NextPath ==
  \/ Construct
  \/ InitStart
  \/ InitEnvReply

SpecPath == InitPath /\ [][NextPath]_vars

\* The home directory as stated: the variable's value when it is set, the
\* user's home directory plus ".vim" when it is not.
StatedHome(v) == IF v.set THEN v ELSE Join(HomeDir, ".vim")

\* C19: once new Workspace() has run, it has returned, and the path handed to
\* the configuration store is the config file name joined under the stated
\* home directory, whether COC_VIMCONFIG is set or not.
C19_ConfigPath ==
  constructPc # "none" =>
    /\ constructPc = "returned"
    /\ userConfigFile = Join(StatedHome(cfgEnv), CONFIG_FILE_NAME)

\* ------------------------------------------------------------ dispose frame
FiveDisposals ==
  { "watchers.dispose", "autocmds.dispose", "contentProvider.dispose",
    "documentsManager.dispose", "configurations.dispose" }

\* The collaborators dispose() passes over; the first three are attached by
\* init.
PassedOver == { "keymaps", "locations", "files", "workspaceFolderControl" }

\* C20: dispose() calls the disposal of watchers, autocmds, contentProvider,
\* documentsManager and configurations and of nothing else: the calls it
\* makes and the disposals that have returned are among those five, and are
\* all five when it returns; it changes no attachment of keymaps, locations
\* or files, nor the workspace folders, nor the stored snapshot.
C20_DisposeExactlyFive ==
  /\ [](/\ Range(CallsOf(disposeTrace)) \subseteq FiveDisposals
        /\ disposed \subseteq FiveDisposals
        /\ disposePc = "returned" =>
             /\ Range(CallsOf(disposeTrace)) = FiveDisposals
             /\ Len(CallsOf(disposeTrace)) = 5
             /\ disposed = FiveDisposals)
  /\ [][lastOp' = "dispose" =>
          /\ attached' \cap PassedOver = attached \cap PassedOver
          /\ UNCHANGED << folders, env, docsEnv, hostCalls >>]_vars

\* dispose() returned on a fully initialized workspace: five disposals, the
\* keymaps, locations and files still attached, folders and snapshot in place.
C20_Witness ==
  /\ lastOp = "dispose"
  /\ disposePc = "returned"
  /\ disposed = FiveDisposals
  /\ initPc = "resolved"
  /\ { "keymaps", "locations", "files" } \subseteq attached
  /\ folders \in { "foldersA", "foldersB" }
  /\ env \in Snapshots

====
